---------------------------- MODULE Spec2Model ----------------------------
(***************************************************************************)
(* A model of src/main.go: the one-shot setup of main (glfw.Init, window   *)
(* creation, gl.Init, shader compilation, program link, makeCells) and its *)
(* render loop, together with the part of the GLFW / OpenGL state that     *)
(* the calls of main read and write.                                       *)
(*                                                                         *)
(* Strings are sequences of byte tokens (NUL is the byte 0).  Coordinates  *)
(* are counted in halves, so that -0.5, 0 and 0.5 are -1, 0 and 1.  Time   *)
(* is counted in whole ticks.                                              *)
(***************************************************************************)
EXTENDS Integers, Sequences, FiniteSets, TLC

\* ------------------------------------------------------------- bounds --
\* makeCells builds a grid of NumRows x NumCols cells.
NumRows == 1
NumCols == 2
\* The frame counter and the clock stop counting at these values.
MaxFrames == 2
MaxTime == 1
\* The longest info log text the driver produces.
MaxLogLen == 2

\* ---------------------------------------------------------- constants --
NUM_BYTES_IN_32_BIT == 4
width == 640
height == 480

NUL == "NUL"
vertexShaderSource == <<"#version 410 vertex", NUL>>
fragmentShaderSource == <<"#version 410 fragment", NUL>>

right == <<-1, 1, 0,  -1, -1, 0,  1, -1, 0>>
square == <<-1, 1, 0,  -1, -1, 0,  1, -1, 0,  -1, 1, 0,  1, 1, 0,  1, -1, 0>>
isoceles == <<0, 1, 0,  -1, -1, 0,  1, -1, 0>>

\* gl.VERTEX_SHADER, gl.FRAGMENT_SHADER, gl.LINE_LOOP, gl.FALSE as used by main.go
VERTEX_SHADER == "VERTEX_SHADER"
FRAGMENT_SHADER == "FRAGMENT_SHADER"
LINE_LOOP == "LINE_LOOP"

\* The value of an error that is nil, of a handle that names no object.
Nil == <<>>
NoHandle == 0

VARIABLES
  pc,             \* the statement of main that runs next
  calls,          \* how often each setup call and glfw.Terminate has run
  deferred,       \* main's stack of deferred calls
  err,            \* main's err: the error of the last call that returns one
  window,         \* the GLFW window: [exists, shouldClose, current]
  closePending,   \* a close request waits in the OS event queue
  glLoaded,       \* gl.Init has loaded the function pointers
  shaders,        \* the shader objects, by handle
  program,        \* the program object
  buffers,        \* the buffer objects' contents, by handle
  vaos,           \* the vertex array objects, by handle
  binding,        \* the context's selections: [program, vao, arrayBuffer]
  u_time,         \* the program's uniform u_time
  framebuffer,    \* [back, front]
  locals,         \* main's variables: vertexShader, fragmentShader, prog, start
  now,            \* the clock
  cells,          \* main's cells, a grid of vertex array handles
  cursor,         \* the position of the draw loops, <<x, i>>
  frameOps,       \* the GL / GLFW calls of the current frame, in order
  frames,         \* the number of frames begun (counts up to MaxFrames)
  polled,         \* glfw.PollEvents has run at least once
  earlyClose      \* a close request arrived after setup and before the first poll

vars == <<pc, calls, deferred, err, window, closePending, glLoaded,
          shaders, program, buffers, vaos, binding, u_time, framebuffer,
          locals, now, cells, cursor, frameOps, frames, polled, earlyClose>>

gpuObjects == <<shaders, program, buffers, vaos>>

SetupCalls == <<"glfw.Init", "glfw.CreateWindow", "gl.Init",
                "compileShader(vertex)", "compileShader(fragment)",
                "gl.LinkProgram", "makeCells">>
Counted == {SetupCalls[i] : i \in 1..Len(SetupCalls)} \cup {"glfw.Terminate"}

Min(a, b) == IF a < b THEN a ELSE b
Called(c) == [calls EXCEPT ![c] = @ + 1]

Init ==
  /\ pc = "glfw.Init"
  /\ calls = [c \in Counted |-> 0]
  /\ deferred = <<>>
  /\ err = Nil
  /\ window = [exists |-> FALSE, shouldClose |-> FALSE, current |-> FALSE,
               width |-> 0, height |-> 0]
  /\ closePending = FALSE
  /\ glLoaded = FALSE
  /\ shaders = <<>>
  /\ program = [exists |-> FALSE, attached |-> <<>>, linked |-> FALSE]
  /\ buffers = <<>>
  /\ vaos = <<>>
  /\ binding = [program |-> NoHandle, vao |-> NoHandle, arrayBuffer |-> NoHandle]
  /\ u_time = 0
  /\ framebuffer = [back |-> "initial", front |-> "initial"]
  /\ locals = [vertexShader |-> NoHandle, fragmentShader |-> NoHandle,
               prog |-> NoHandle, start |-> 0]
  /\ now = 0
  /\ cells = <<>>
  /\ cursor = <<1, 1>>
  /\ frameOps = <<>>
  /\ frames = 0
  /\ polled = FALSE
  /\ earlyClose = FALSE

\* ------------------------------------------------------ error handling --
\* Faulty variant of IfErrPanic: the error is not checked.
PanicIgnored(e, next) == next

\* if err != nil { panic(err) }: where main goes after a call that may fail.
IfErrPanic(e, next) == IF e # Nil THEN "panic" ELSE next


\* ---------------------------------------------------------- the driver --
\* The info log texts the driver may hold for a shader (InfoLogs) and what
\* glGetShaderiv(INFO_LOG_LENGTH) reports for one: its length with the
\* terminating NUL, or 0 when there is no log.
LogChars == {"e"}
InfoLogs == UNION {[1..n -> LogChars] : n \in 0..MaxLogLen}
InfoLogLength(infoLog) == IF infoLog = <<>> THEN 0 ELSE Len(infoLog) + 1

\* strings.Repeat(s, n)
Repeat(s, n) == [i \in 1..n |-> s]

\* gl.GetShaderInfoLog(shader, bufSize, nil, buf): at most bufSize - 1 bytes of
\* the log and a NUL are written at the start of buf; nothing when bufSize is 0.
GetShaderInfoLog(infoLog, bufSize, buf) ==
  IF bufSize <= 0 THEN buf
  ELSE LET n == Min(Len(infoLog), bufSize - 1)
       IN  [i \in 1..Len(buf) |-> IF i <= n THEN infoLog[i]
                                  ELSE IF i = n + 1 THEN NUL ELSE buf[i]]

\* fmt.Errorf("failed to compile %v: %v", source, log)
Errorf(source, log) == <<"failed to compile ">> \o source \o <<": ">> \o log

\* Faulty variant of compileShader: the handle is returned with the error.
compileShader_ReturnsHandleOnFailure(source, shaderType, status, infoLog) ==
  LET shader == Len(shaders) + 1
      object == [type |-> shaderType, source |-> source, compiled |-> status]
      logLength == InfoLogLength(infoLog)
      log == GetShaderInfoLog(infoLog, logLength, Repeat(NUL, logLength + 1))
  IN  IF status = FALSE
      THEN [shader |-> shader, err |-> Errorf(source, log), object |-> object]
      ELSE [shader |-> shader, err |-> Nil, object |-> object]

\* compileShader, given what the driver answers for this source: the compile
\* status and the info log.  The shader object is created in either case and
\* gets the next free name.
compileShader(source, shaderType, status, infoLog) ==
  LET shader == Len(shaders) + 1
      object == [type |-> shaderType, source |-> source, compiled |-> status]
      logLength == InfoLogLength(infoLog)
      log == GetShaderInfoLog(infoLog, logLength, Repeat(NUL, logLength + 1))
  IN  IF status = FALSE
      THEN [shader |-> NoHandle, err |-> Errorf(source, log), object |-> object]
      ELSE [shader |-> shader, err |-> Nil, object |-> object]

\* makeVao(points) on the objects and selections st = [buffers, vaos, binding]:
\* a new buffer holding points, a new vertex array whose attribute 0 reads it.
makeVao(st, points) ==
  LET vbo == Len(st.buffers) + 1
      vao == Len(st.vaos) + 1
      buffer == [data |-> points, size |-> NUM_BYTES_IN_32_BIT * Len(points),
                 usage |-> "STATIC_DRAW"]
      array == [attrib0 |-> [enabled |-> TRUE, size |-> 3, type |-> "FLOAT",
                             normalized |-> FALSE, stride |-> 0, offset |-> 0,
                             buffer |-> vbo]]
  IN  [buffers |-> Append(st.buffers, buffer),
       vaos |-> Append(st.vaos, array),
       binding |-> [st.binding EXCEPT !.arrayBuffer = vbo, !.vao = vao],
       vao |-> vao]

\* makeCells, whose body is not among the sources: a grid of NumRows x NumCols
\* cells, each with the vertex array that makeVao makes of its shape.  shapeOf
\* gives the shape of the k-th cell in row-major order; the specification
\* names square as the shape in use, the model admits each of the three
\* shapes that main.go defines.
Shapes == {right, square, isoceles}
RECURSIVE makeCellsFrom(_, _, _)
makeCellsFrom(st, shapeOf, k) ==
  IF k > NumRows * NumCols THEN [st |-> st, drawables |-> <<>>]
  ELSE LET made == makeVao(st, shapeOf[k])
           rest == makeCellsFrom([buffers |-> made.buffers, vaos |-> made.vaos,
                                  binding |-> made.binding], shapeOf, k + 1)
       IN  [st |-> rest.st, drawables |-> <<made.vao>> \o rest.drawables]

makeCells(st, shapeOf) ==
  LET made == makeCellsFrom(st, shapeOf, 1)
  IN  [st |-> made.st,
       cells |-> [x \in 1..NumRows |->
                    [i \in 1..NumCols |->
                       [drawable |-> made.drawables[(x - 1) * NumCols + i]]]]]

\* --------------------------------------------------------------- setup --
\* glfw.Init() and its check
GlfwInit ==
  /\ pc = "glfw.Init"
  /\ \E e \in {Nil, <<"glfw.Init failed">>} :
       /\ err' = e
       /\ pc' = IfErrPanic(e, "glfw.CreateWindow")
  /\ calls' = Called("glfw.Init")
  /\ UNCHANGED <<deferred, window, closePending, glLoaded, gpuObjects, binding,
                 u_time, framebuffer, locals, now, cells, cursor, frameOps,
                 frames, polled, earlyClose>>

\* the window hints, glfw.CreateWindow and its check
CreateWindow ==
  /\ pc = "glfw.CreateWindow"
  /\ \E e \in {Nil, <<"glfw.CreateWindow failed">>} :
       /\ err' = e
       /\ window' = IF e = Nil
                    THEN [window EXCEPT !.exists = TRUE, !.width = width,
                                        !.height = height]
                    ELSE window
       /\ pc' = IfErrPanic(e, "defer glfw.Terminate")
  /\ calls' = Called("glfw.CreateWindow")
  /\ UNCHANGED <<deferred, closePending, glLoaded, gpuObjects, binding, u_time,
                 framebuffer, locals, now, cells, cursor, frameOps, frames,
                 polled, earlyClose>>

\* window.MakeContextCurrent() and defer glfw.Terminate()
DeferTerminate ==
  /\ pc = "defer glfw.Terminate"
  /\ window' = [window EXCEPT !.current = TRUE]
  /\ deferred' = <<"glfw.Terminate">> \o deferred
  /\ pc' = "gl.Init"
  /\ UNCHANGED <<calls, err, closePending, glLoaded, gpuObjects, binding,
                 u_time, framebuffer, locals, now, cells, cursor, frameOps,
                 frames, polled, earlyClose>>

\* gl.Init(), its check, and the version log line
GlInit ==
  /\ pc = "gl.Init"
  /\ \E e \in {Nil, <<"gl.Init failed">>} :
       /\ err' = e
       /\ glLoaded' = (e = Nil)
       /\ pc' = IfErrPanic(e, "compileShader(vertex)")
  /\ calls' = Called("gl.Init")
  /\ UNCHANGED <<deferred, window, closePending, gpuObjects, binding, u_time,
                 framebuffer, locals, now, cells, cursor, frameOps, frames,
                 polled, earlyClose>>

\* vertexShader, err := compileShader(vertexShaderSource, gl.VERTEX_SHADER)
CompileVertexShader ==
  /\ pc = "compileShader(vertex)"
  /\ \E status \in BOOLEAN, infoLog \in InfoLogs :
       LET r == compileShader(vertexShaderSource, VERTEX_SHADER, status, infoLog)
       IN  /\ shaders' = Append(shaders, r.object)
           /\ locals' = [locals EXCEPT !.vertexShader = r.shader]
           /\ err' = r.err
           /\ pc' = IfErrPanic(r.err, "compileShader(fragment)")
  /\ calls' = Called("compileShader(vertex)")
  /\ UNCHANGED <<deferred, window, closePending, glLoaded, program, buffers,
                 vaos, binding, u_time, framebuffer, now, cells, cursor,
                 frameOps, frames, polled, earlyClose>>

\* fragmentShader, err := compileShader(fragmentShaderSource, gl.FRAGMENT_SHADER)
CompileFragmentShader ==
  /\ pc = "compileShader(fragment)"
  /\ \E status \in BOOLEAN, infoLog \in InfoLogs :
       LET r == compileShader(fragmentShaderSource, FRAGMENT_SHADER, status, infoLog)
       IN  /\ shaders' = Append(shaders, r.object)
           /\ locals' = [locals EXCEPT !.fragmentShader = r.shader]
           /\ err' = r.err
           /\ pc' = IfErrPanic(r.err, "gl.LinkProgram")
  /\ calls' = Called("compileShader(fragment)")
  /\ UNCHANGED <<deferred, window, closePending, glLoaded, program, buffers,
                 vaos, binding, u_time, framebuffer, now, cells, cursor,
                 frameOps, frames, polled, earlyClose>>

\* Faulty variant of LinkProgram: the link status is read and a failed link
\* panics.
LinkProgram_ChecksStatus ==
  /\ pc = "gl.LinkProgram"
  /\ \E linked \in BOOLEAN :
       /\ program' = [exists |-> TRUE,
                      attached |-> <<locals.vertexShader, locals.fragmentShader>>,
                      linked |-> linked]
       /\ err' = IF linked THEN Nil ELSE <<"failed to link">>
       /\ pc' = IF linked THEN "makeCells" ELSE "panic"
  /\ locals' = [locals EXCEPT !.prog = Len(shaders) + 1]
  /\ calls' = Called("gl.LinkProgram")
  /\ UNCHANGED <<deferred, window, closePending, glLoaded, shaders, buffers,
                 vaos, binding, u_time, framebuffer, now, cells, cursor,
                 frameOps, frames, polled, earlyClose>>

\* gl.CreateProgram, the two gl.AttachShader and gl.LinkProgram.  Whether the
\* link succeeds is the driver's answer; main does not ask for it.
LinkProgram ==
  /\ pc = "gl.LinkProgram"
  /\ \E linked \in BOOLEAN :
       program' = [exists |-> TRUE,
                   attached |-> <<locals.vertexShader, locals.fragmentShader>>,
                   linked |-> linked]
  /\ locals' = [locals EXCEPT !.prog = Len(shaders) + 1]
  /\ calls' = Called("gl.LinkProgram")
  /\ pc' = "makeCells"
  /\ UNCHANGED <<deferred, err, window, closePending, glLoaded, shaders,
                 buffers, vaos, binding, u_time, framebuffer, now, cells,
                 cursor, frameOps, frames, polled, earlyClose>>

\* start := time.Now(); cells := makeCells()
MakeCells ==
  /\ pc = "makeCells"
  /\ \E shapeOf \in [1..(NumRows * NumCols) -> Shapes] :
       LET made == makeCells([buffers |-> buffers, vaos |-> vaos,
                              binding |-> binding], shapeOf)
       IN  /\ buffers' = made.st.buffers
           /\ vaos' = made.st.vaos
           /\ binding' = made.st.binding
           /\ cells' = made.cells
  /\ locals' = [locals EXCEPT !.start = now]
  /\ calls' = Called("makeCells")
  /\ pc' = "loop"
  /\ UNCHANGED <<deferred, err, window, closePending, glLoaded, shaders,
                 program, u_time, framebuffer, now, cursor, frameOps, frames,
                 polled, earlyClose>>


\* ------------------------------------------------------ the render loop --
\* A call of the current frame, as recorded in frameOps.
Op(name) == [op |-> name]

\* Faulty variant of LoopCondition: the close flag is not read.
LoopCondition_IgnoresClose == TRUE

\* for !window.ShouldClose()
LoopCondition == ~window.shouldClose

\* The loop condition is evaluated: a new frame begins, or main returns.
LoopCheck ==
  /\ pc = "loop"
  /\ IF LoopCondition
     THEN /\ pc' = "gl.Uniform1f"
          /\ frameOps' = <<>>
          /\ frames' = Min(frames + 1, MaxFrames)
     ELSE /\ pc' = "return"
          /\ UNCHANGED <<frameOps, frames>>
  /\ UNCHANGED <<calls, deferred, err, window, closePending, glLoaded,
                 gpuObjects, binding, u_time, framebuffer, locals, now, cells,
                 cursor, polled, earlyClose>>

\* gl.GetUniformLocation(prog, "u_time"): -1 for a program that is not linked.
GetUniformLocation == IF program.linked THEN 0 ELSE -1

\* gl.Uniform1f(gl.GetUniformLocation(prog, "u_time"), float32(time.Since(start).Seconds())).
\* The value goes to the uniform of the program in use: with no program in
\* use the call is an error, with location -1 it is ignored.
Uniform1f ==
  /\ pc = "gl.Uniform1f"
  /\ \E t \in {now, Min(now + 1, MaxTime)} :
       /\ now' = t
       /\ u_time' = IF binding.program = locals.prog /\ GetUniformLocation # -1
                    THEN t - locals.start ELSE u_time
  /\ frameOps' = Append(frameOps, [op |-> "gl.Uniform1f",
                                  inUse |-> binding.program])
  /\ pc' = "gl.Clear"
  /\ UNCHANGED <<calls, deferred, err, window, closePending, glLoaded,
                 gpuObjects, binding, framebuffer, locals, cells, cursor,
                 frames, polled, earlyClose>>

\* gl.Clear(gl.COLOR_BUFFER_BIT | gl.DEPTH_BUFFER_BIT)
Clear ==
  /\ pc = "gl.Clear"
  /\ framebuffer' = [framebuffer EXCEPT !.back = "cleared"]
  /\ frameOps' = Append(frameOps, Op("gl.Clear"))
  /\ pc' = "gl.UseProgram"
  /\ UNCHANGED <<calls, deferred, err, window, closePending, glLoaded,
                 gpuObjects, binding, u_time, locals, now, cells, cursor,
                 frames, polled, earlyClose>>

\* The first position of the two range loops over cells, and the one after
\* <<x, i>>; <<0, 0>> when no cell is left.
RECURSIVE FirstCellFrom(_)
FirstCellFrom(x) ==
  IF x > Len(cells) THEN <<0, 0>>
  ELSE IF Len(cells[x]) > 0 THEN <<x, 1>> ELSE FirstCellFrom(x + 1)

\* Faulty variant of NextCell: the last cell of each row is left out.
NextCell_SkipsLastColumn(cur) ==
  IF cur[2] + 1 < Len(cells[cur[1]]) THEN <<cur[1], cur[2] + 1>>
  ELSE FirstCellFrom(cur[1] + 1)

NextCell(cur) ==
  IF cur[2] < Len(cells[cur[1]]) THEN <<cur[1], cur[2] + 1>>
  ELSE FirstCellFrom(cur[1] + 1)

AfterCell(cur) == IF cur = <<0, 0>> THEN "glfw.PollEvents" ELSE "c.draw"

\* gl.UseProgram(prog): an error that selects nothing when prog is not linked.
UseProgram ==
  /\ pc = "gl.UseProgram"
  /\ binding' = IF program.linked THEN [binding EXCEPT !.program = locals.prog]
                ELSE binding
  /\ frameOps' = Append(frameOps, [op |-> "gl.UseProgram", program |-> locals.prog])
  /\ cursor' = FirstCellFrom(1)
  /\ pc' = AfterCell(cursor')
  /\ UNCHANGED <<calls, deferred, err, window, closePending, glLoaded,
                 gpuObjects, u_time, framebuffer, locals, now, cells, frames,
                 polled, earlyClose>>

\* The number of vertices in the buffer that vertex array vao reads.
VerticesOf(vao) == Len(buffers[vaos[vao].attrib0.buffer].data) \div 3

\* Faulty variant of draw: the count is that of the cell's own buffer.
draw_OwnVertexCount(c) ==
  [op |-> "gl.DrawArrays", vao |-> c.drawable, mode |-> LINE_LOOP, first |-> 0,
   count |-> VerticesOf(c.drawable)]

\* (c *cell).draw(): the vertex array it binds and the draw call it issues.
draw(c) ==
  [op |-> "gl.DrawArrays", vao |-> c.drawable, mode |-> LINE_LOOP, first |-> 0,
   count |-> Len(square) \div 3]

\* What a draw call leaves in the back buffer: the shape, or, when no program
\* is in use or the call reads past the end of the buffer, anything.
DrawResults(call) ==
  IF binding.program # NoHandle /\ call.first + call.count <= VerticesOf(call.vao)
  THEN {"drawn"}
  ELSE {"garbage", framebuffer.back}

\* Faulty variant of DrawCell: the geometry is uploaded again for each draw.
DrawCell_ReuploadsGeometry ==
  /\ pc = "c.draw"
  /\ LET c == cells[cursor[1]][cursor[2]]
         call == draw(c)
         made == makeVao([buffers |-> buffers, vaos |-> vaos,
                          binding |-> binding], square)
     IN  /\ binding' = [binding EXCEPT !.vao = call.vao]
         /\ buffers' = made.buffers
         /\ vaos' = made.vaos
         /\ frameOps' = Append(frameOps, call @@ [cell |-> cursor])
         /\ \E result \in DrawResults(call) :
              framebuffer' = [framebuffer EXCEPT !.back = result]
  /\ cursor' = NextCell(cursor)
  /\ pc' = AfterCell(cursor')
  /\ UNCHANGED <<calls, deferred, err, window, closePending, glLoaded,
                 shaders, program, u_time, locals, now, cells, frames,
                 polled, earlyClose>>

\* c.draw() for the cell at the cursor, and the step of the range loops
DrawCell ==
  /\ pc = "c.draw"
  /\ LET c == cells[cursor[1]][cursor[2]]
         call == draw(c)
     IN  /\ binding' = [binding EXCEPT !.vao = call.vao]
         /\ frameOps' = Append(frameOps, call @@ [cell |-> cursor])
         /\ \E result \in DrawResults(call) :
              framebuffer' = [framebuffer EXCEPT !.back = result]
  /\ cursor' = NextCell(cursor)
  /\ pc' = AfterCell(cursor')
  /\ UNCHANGED <<calls, deferred, err, window, closePending, glLoaded,
                 gpuObjects, u_time, locals, now, cells, frames, polled,
                 earlyClose>>

\* Faulty variant of ProcessEvents: a close request is dropped.
ProcessEvents_DropsClose(w, pending) == w

\* glfw.PollEvents(): the waiting events are processed; a close request sets
\* the window's close flag.
ProcessEvents(w, pending) == IF pending THEN [w EXCEPT !.shouldClose = TRUE] ELSE w

PollEvents ==
  /\ pc = "glfw.PollEvents"
  /\ window' = ProcessEvents(window, closePending)
  /\ closePending' = FALSE
  /\ polled' = TRUE
  /\ frameOps' = Append(frameOps, Op("glfw.PollEvents"))
  /\ pc' = "window.SwapBuffers"
  /\ UNCHANGED <<calls, deferred, err, glLoaded, gpuObjects, binding,
                 u_time, framebuffer, locals, now, cells, cursor, frames,
                 earlyClose>>

\* window.SwapBuffers(): the back buffer is shown; what the back buffer holds
\* afterwards is the old front buffer (a flip) or still the frame (a copy).
SwapBuffers ==
  /\ pc = "window.SwapBuffers"
  /\ \E back \in {framebuffer.front, framebuffer.back} :
       framebuffer' = [back |-> back, front |-> framebuffer.back]
  /\ frameOps' = Append(frameOps, Op("window.SwapBuffers"))
  /\ pc' = "loop"
  /\ UNCHANGED <<calls, deferred, err, window, closePending, glLoaded,
                 gpuObjects, binding, u_time, locals, now, cells, cursor,
                 frames, polled, earlyClose>>

\* ------------------------------------------------------ the end of main --
\* The deferred calls run when main returns and when it panics:
\* glfw.Terminate destroys the window.
TerminatesIn(stack) == Cardinality({k \in 1..Len(stack) : stack[k] = "glfw.Terminate"})

RunDeferred ==
  /\ calls' = [calls EXCEPT !["glfw.Terminate"] = @ + TerminatesIn(deferred)]
  /\ window' = IF TerminatesIn(deferred) > 0
               THEN [window EXCEPT !.exists = FALSE, !.current = FALSE]
               ELSE window
  /\ closePending' = IF TerminatesIn(deferred) > 0 THEN FALSE ELSE closePending
  /\ deferred' = <<>>

\* main returns after the loop: exit status 0
Return ==
  /\ pc = "return"
  /\ RunDeferred
  /\ pc' = "exited"
  /\ UNCHANGED <<err, glLoaded, gpuObjects, binding, u_time, framebuffer,
                 locals, now, cells, cursor, frameOps, frames, polled, earlyClose>>

\* panic(err): the deferred calls run, then the process aborts
Panic ==
  /\ pc = "panic"
  /\ RunDeferred
  /\ pc' = "aborted"
  /\ UNCHANGED <<err, glLoaded, gpuObjects, binding, u_time, framebuffer,
                 locals, now, cells, cursor, frameOps, frames, polled, earlyClose>>

\* ------------------------------------------------------ the environment --
\* The user asks the window to close: the request waits for the next poll.
CloseRequest ==
  /\ window.exists
  /\ ~closePending
  /\ ~window.shouldClose
  /\ closePending' = TRUE
  /\ earlyClose' = (earlyClose \/ ~polled)
  /\ UNCHANGED <<pc, calls, deferred, err, window, glLoaded, gpuObjects,
                 binding, u_time, framebuffer, locals, now, cells, cursor,
                 frameOps, frames, polled>>

Next ==
  \/ GlfwInit
  \/ CreateWindow
  \/ DeferTerminate
  \/ GlInit
  \/ CompileVertexShader
  \/ CompileFragmentShader
  \/ LinkProgram
  \/ MakeCells
  \/ LoopCheck
  \/ Uniform1f
  \/ Clear
  \/ UseProgram
  \/ DrawCell
  \/ PollEvents
  \/ SwapBuffers
  \/ Return
  \/ Panic
  \/ CloseRequest

Spec == Init /\ [][Next]_vars


\* ============================================================== claims ==
Terminated == pc \in {"exited", "aborted"}
SetupDone == calls["makeCells"] = 1
IsDraw(o) == o.op = "gl.DrawArrays"
Draws(ops) == SelectSeq(ops, IsDraw)
Last(q) == q[Len(q)]
IsPrefix(p, q) == Len(p) <= Len(q) /\ \A k \in 1..Len(p) : p[k] = q[k]
NumCells == NumRows * NumCols

\* ------------------------------------------------------------------ C1 --
\* C1: once the poll of the render loop has set the window's close flag, no
\* step issues a draw call or begins a frame (the only call still recorded
\* is the swap of the frame in progress), and the next evaluation of the loop
\* condition leaves the loop.
C1_NoDrawAfterClose ==
  [][window.shouldClose =>
       /\ frameOps' \in {frameOps, Append(frameOps, Op("window.SwapBuffers"))}
       /\ frames' = frames
       /\ pc = "loop" => pc' \in {"loop", "return"}
       /\ pc' \notin {"gl.Uniform1f", "gl.Clear", "gl.UseProgram", "c.draw"}]_vars

\* C1 witness: the close flag was set by the poll of the second frame and
\* main has left the loop.
C1_Witness ==
  /\ window.shouldClose
  /\ pc = "return"
  /\ frames = 2
  /\ Len(Draws(frameOps)) = NumCells

\* ------------------------------------------------------------------ C2 --
\* The first k setup calls ran once each and no later one ran.
RanExactly(k) ==
  \A j \in 1..Len(SetupCalls) : calls[SetupCalls[j]] = IF j <= k THEN 1 ELSE 0

\* C2: when a setup call has failed (glfw.Init, glfw.CreateWindow, gl.Init,
\* either compileShader), main is panicking or has aborted, the failed call
\* and those before it ran exactly once, no later setup call ran, and the
\* render loop was never entered: no frame, no uniform write, no clear, draw,
\* poll or swap.
C2_SetupFailureAborts ==
  err # Nil =>
    /\ pc \in {"panic", "aborted"}
    /\ \E k \in 1..5 : RanExactly(k)
    /\ frames = 0 /\ frameOps = <<>> /\ ~polled
    /\ u_time = 0
    /\ framebuffer = [back |-> "initial", front |-> "initial"]
    /\ buffers = <<>> /\ vaos = <<>> /\ ~program.exists

\* C2 witness: the fragment shader failed to compile and main has aborted.
C2_Witness ==
  /\ pc = "aborted"
  /\ err # Nil
  /\ RanExactly(5)

\* ------------------------------------------------------------------ C3 --
\* C3: when a close request arrived before the first poll, at most one frame
\* is ever begun, the loop condition evaluated after that frame finds the
\* close flag set, and once setup is done main does not panic: it ends by
\* returning.
C3_EarlyClose ==
  earlyClose =>
    /\ frames <= 1
    /\ (pc = "loop" /\ frames = 1) => window.shouldClose
    /\ SetupDone => pc \notin {"panic", "aborted"} /\ err = Nil
    /\ (Terminated /\ SetupDone) => pc = "exited"

\* C3 witness: a close request arrived while main was in the loop and had not
\* polled yet; main rendered one frame and returned.
C3_Witness ==
  /\ earlyClose
  /\ pc = "exited"
  /\ frames = 1
  /\ Len(frameOps) = NumCells + 5

\* ------------------------------------------------------------------ C4 --
\* The outcome of the last call of compileShader, as main holds it.
LastShader == shaders[Len(shaders)]
LastHandle == IF Len(shaders) = 1 THEN locals.vertexShader ELSE locals.fragmentShader
CompileFailed == Len(shaders) > 0 /\ ~LastShader.compiled
\* The log that the error embeds after the source and ": ", and its text: the
\* bytes before the first NUL.
EmbeddedLog == SubSeq(err, Len(LastShader.source) + 3, Len(err))
RECURSIVE CText(_)
CText(bytes) ==
  IF bytes = <<>> \/ bytes[1] = NUL THEN <<>>
  ELSE <<bytes[1]>> \o CText(SubSeq(bytes, 2, Len(bytes)))
EmbedsSource ==
  IsPrefix(<<"failed to compile ">> \o LastShader.source \o <<": ">>, err)

\* C4 as stated: a failed compile returns handle 0 and an error that embeds
\* the source and a non-empty compiler log; a successful one returns the
\* shader's handle and a nil error.
C4_Original ==
  Len(shaders) > 0 =>
    IF CompileFailed
    THEN LastHandle = NoHandle /\ EmbedsSource /\ CText(EmbeddedLog) # <<>>
    ELSE LastHandle = Len(shaders) /\ err = Nil

\* C4 amended: a failed compile returns handle 0 and an error that embeds the
\* source and a log string that is never the empty string: the driver's info
\* log text followed by NULs (two after a text, one alone when the driver
\* holds no info log, so the text may be empty); a successful one returns the
\* shader's handle and a nil error.
C4_CompileOutcome ==
  Len(shaders) > 0 =>
    IF CompileFailed
    THEN /\ LastHandle = NoHandle
         /\ err # Nil
         /\ EmbedsSource
         /\ Len(EmbeddedLog) >= 1
         /\ Len(EmbeddedLog) = IF CText(EmbeddedLog) = <<>> THEN 1
                               ELSE Len(CText(EmbeddedLog)) + 2
         /\ \A k \in (Len(CText(EmbeddedLog)) + 1)..Len(EmbeddedLog) :
              EmbeddedLog[k] = NUL
    ELSE LastHandle = Len(shaders) /\ LastHandle # NoHandle /\ err = Nil

\* C4 witness: the fragment shader failed to compile with a two-byte info log.
C4_Witness ==
  /\ Len(shaders) = 2
  /\ CompileFailed
  /\ err = Errorf(fragmentShaderSource, <<"e", "e", NUL, NUL>>)
  /\ locals.fragmentShader = NoHandle

\* ------------------------------------------------------------------ C5 --
\* The calls of one frame, in order, and the cells of its draw calls.
ExpectedFrame ==
  <<"gl.Uniform1f", "gl.Clear", "gl.UseProgram">>
    \o [k \in 1..NumCells |-> "gl.DrawArrays"]
    \o <<"glfw.PollEvents", "window.SwapBuffers">>
OpNames(ops) == [k \in 1..Len(ops) |-> ops[k].op]
RowMajor == [k \in 1..NumCells |-> <<((k - 1) \div NumCols) + 1, ((k - 1) % NumCols) + 1>>]
DrawnCells == [k \in 1..Len(Draws(frameOps)) |-> Draws(frameOps)[k].cell]
PcOfCall(name) == IF name = "gl.DrawArrays" THEN "c.draw" ELSE name
InFrame == pc \in {"gl.Uniform1f", "gl.Clear", "gl.UseProgram", "c.draw",
                   "glfw.PollEvents", "window.SwapBuffers"}
FrameInOrder ==
  /\ IsPrefix(OpNames(frameOps), ExpectedFrame)
  /\ IsPrefix(DrawnCells, RowMajor)
  /\ InFrame => /\ Len(frameOps) < Len(ExpectedFrame)
                /\ pc = PcOfCall(ExpectedFrame[Len(frameOps) + 1])

\* C5 as stated: the calls of a frame come in the fixed order, once each, and
\* the loop condition is evaluated only after a swap.
C5_Original ==
  /\ FrameInOrder
  /\ pc = "loop" => (frameOps # <<>> /\ Last(frameOps).op = "window.SwapBuffers")

\* C5 amended: in every frame the calls come in the order uniform, clear, use
\* program, one draw per cell in row-major order, poll, swap, once each; the
\* loop condition is evaluated only when a whole frame has been issued, right
\* after its swap, or, the first time, right after makeCells before any frame.
C5_FrameOrder ==
  /\ FrameInOrder
  /\ pc = "loop" =>
       \/ frames = 0 /\ frameOps = <<>>
       \/ frames > 0 /\ OpNames(frameOps) = ExpectedFrame
  /\ (SetupDone /\ pc \in {"return", "exited"} /\ frames > 0) =>
       OpNames(frameOps) = ExpectedFrame

\* C5 witness: the loop condition is about to be evaluated after the second
\* frame, whose calls are all recorded.
C5_Witness ==
  /\ pc = "loop"
  /\ frames = 2
  /\ OpNames(frameOps) = ExpectedFrame

\* ------------------------------------------------------------------ C6 --
\* C6: once gl.LinkProgram has run, main is not panicking and has not
\* aborted, whatever the link status: it goes on to makeCells and the loop.
C6_LinkNeverChecked ==
  calls["gl.LinkProgram"] = 1 =>
    /\ err = Nil
    /\ pc \notin {"panic", "aborted"}
    /\ ~SetupDone => pc = "makeCells"

\* C6 witness: the link failed and the loop has issued a draw call.
C6_Witness ==
  /\ program.exists
  /\ ~program.linked
  /\ Draws(frameOps) # <<>>

\* ------------------------------------------------------------------ C7 --
\* C7: every draw call is issued with the vertex array of its own cell bound,
\* with line-loop topology, from vertex 0, over len(square)/3 = 6 vertices.
C7_DrawUsesSquareCount ==
  /\ Len(square) \div 3 = 6
  /\ \A k \in 1..Len(frameOps) :
       IsDraw(frameOps[k]) =>
         /\ frameOps[k].vao = cells[frameOps[k].cell[1]][frameOps[k].cell[2]].drawable
         /\ frameOps[k].mode = LINE_LOOP
         /\ frameOps[k].first = 0
         /\ frameOps[k].count = 6
  /\ (frameOps # <<>> /\ IsDraw(Last(frameOps))) => binding.vao = Last(frameOps).vao

\* C7 witness: a draw call over 6 vertices of a cell whose buffer received 3.
C7_Witness ==
  \E k \in 1..Len(frameOps) :
    /\ IsDraw(frameOps[k])
    /\ frameOps[k].count = 6
    /\ VerticesOf(frameOps[k].vao) = 3

C9_UniformWithProgramInUse ==
  program.linked =>
    \A k \in 1..Len(frameOps) :
      frameOps[k].op = "gl.Uniform1f" => frameOps[k].inUse = locals.prog

\* ----------------------------------------------------------------- C10 --
\* C10: when main has ended after glfw.Init succeeded, glfw.Terminate has
\* run exactly once.
C10_TerminateOnEveryExit ==
  (Terminated /\ calls["glfw.CreateWindow"] = 1) => calls["glfw.Terminate"] = 1

=============================================================================
